---- MODULE Spec2Model ----
(***************************************************************************)
(* Model of the nba-quant-system model lifecycle (app/retrain_engine.py,   *)
(* app/prediction_models.py, app/supabase_client.py) and of its record     *)
(* stores (app/database.py, app/supabase_client.py).                       *)
(*                                                                         *)
(* A model directory (local MODEL_DIR, remote storage bucket "models") is  *)
(* a function from the five storage file names to the content of the file: *)
(* Absent when the file does not exist, otherwise the number N of the      *)
(* version tag "vN" under which the file was written (for the .pkl files:  *)
(* the training run that pickled them; for model_version.json: the tag it  *)
(* stores).                                                                *)
(***************************************************************************)
EXTENDS Integers, Sequences, FiniteSets, TLC

VARIABLES
    local,       \* MODEL_DIR: file name -> content
    remote,      \* Supabase Storage bucket "models": file name -> content
    available,   \* supabase_client._get_client() returns a client
    finalGames,  \* table games: the games 1..finalGames have status LIKE 'Final%'
    results,     \* table results: a set of rows, at most one per game_id
    snapshot,    \* table predictions_snapshot: its rows in id order
    predictions, \* Supabase table predictions: its rows in id order
    last,        \* what the last operation did and returned
    review_results, \* Supabase table review_results: a set of rows
    api,         \* balldontlie /games/{id}: game -> status, or its final score
    now,         \* the clock datetime.utcnow() reads
    rng,         \* state of the numpy generator the simulator used last
    sims         \* what run_possession_simulation returned, by arguments

\* what only the review reads and writes
reviewVars == <<review_results, api, now>>

\* what only the simulator reads and writes
simVars == <<rng, sims>>

vars == <<local, remote, available, finalGames, results, snapshot, predictions, last,
          review_results, api, now, rng, sims>>

----------------------------------------------------------------------------
(* Bounds *)

\* highest version number a training run may write
MaxVersion == 3

\* the contests predictions are persisted for
MaxGames == 2

\* the rows a prediction table may hold
MaxPredictions == 2

\* the executions of run_review
MaxClock == 2

\* the draws per side of one simulation (n_sim)
MaxDraws == 3

\* the calls of the simulator with the same arguments
MaxCalls == 2

\* the games of the longest season a history is fetched from
MaxSeason == 23

----------------------------------------------------------------------------
(* Program constants *)

MIN_RETRAIN_GAMES == 50

\* len(FEATURE_COLUMNS)
FEATURE_COUNT == 40

\* train_models refuses a narrower schema
MIN_FEATURE_COUNT == 30

\* content of a file that does not exist
Absent == 0

\* _current_version() when model_version.json is missing: "unknown"
Unknown == 0

\* load_models() returning None
None == [missing |-> TRUE]

VERSION_FILE == "model_version.json"

MODEL_FILES == {"home_model.pkl", "away_model.pkl", "spread_model.pkl", "total_model.pkl"}

MODEL_STORAGE_FILES == MODEL_FILES \cup {VERSION_FILE}

REQUIRED_FILES == {"home_model.pkl", "away_model.pkl"}

EmptyDir == [f \in MODEL_STORAGE_FILES |-> Absent]

\* the directory train_models leaves behind for version v
TrainedDir(v) == [f \in MODEL_STORAGE_FILES |-> v]

----------------------------------------------------------------------------
(* prediction_models.py *)

current_version(dir) == dir[VERSION_FILE]

\* int(cur.lstrip("v")) + 1, and 2 when cur is not a number ("unknown")
bump_version(cur) == IF cur = Unknown THEN 2 ELSE cur + 1

load_models(dir) ==
    IF \E f \in REQUIRED_FILES : dir[f] = Absent
    THEN None
    ELSE [missing |-> FALSE,
          home    |-> dir["home_model.pkl"],
          away    |-> dir["away_model.pkl"],
          spread  |-> dir["spread_model.pkl"],
          total   |-> dir["total_model.pkl"],
          version |-> current_version(dir)]

----------------------------------------------------------------------------
(* supabase_client.py: Supabase Storage helpers *)

\* What the storage calls of one transfer do, per file.  A download of a
\* file either returns its bytes or raises; an upload first removes the
\* remote file (errors ignored) and then uploads, so a failed upload leaves
\* the remote file as it was ("kept") or removed ("removed").
TransferOutcomes == {"ok", "kept", "removed"}

\* the per-file outcomes of one transfer: no file fails, one file fails on
\* its own, or every file fails the same way (the store is unreachable)
Faults ==
    {p \in [MODEL_STORAGE_FILES -> TransferOutcomes] :
        \/ \E f \in MODEL_STORAGE_FILES :
              \A g \in MODEL_STORAGE_FILES \ {f} : p[g] = "ok"
        \/ \A f \in MODEL_STORAGE_FILES : p[f] = "kept"
        \/ \A f \in MODEL_STORAGE_FILES : p[f] = "removed"}

DownloadFaults == {p \in Faults : \A f \in MODEL_STORAGE_FILES : p[f] # "removed"}

\* the bucket after upload_models_to_storage(dir) with per-file outcomes p
uploaded_bucket(dir, bucket, p) ==
    [f \in MODEL_STORAGE_FILES |->
        IF dir[f] = Absent THEN bucket[f]
        ELSE IF p[f] = "ok" THEN dir[f]
        ELSE IF p[f] = "removed" THEN Absent
        ELSE bucket[f]]

\* the value upload_models_to_storage returns
upload_success(dir, p) ==
    \A f \in MODEL_STORAGE_FILES : dir[f] # Absent => p[f] = "ok"

\* upload_models_to_storage(MODEL_DIR): <<bucket afterwards, return value>>
upload_models_to_storage(dir, bucket, client, p) ==
    IF ~client THEN <<bucket, FALSE>>
    ELSE <<uploaded_bucket(dir, bucket, p), upload_success(dir, p)>>

\* the directory after the download loop: a file is written when the bucket
\* holds it and its download did not raise
downloaded_dir(dir, bucket, p) ==
    [f \in MODEL_STORAGE_FILES |->
        IF bucket[f] # Absent /\ p[f] = "ok" THEN bucket[f] ELSE dir[f]]

\* variant: any() in place of all()
required_exist_any(dir) == \E f \in REQUIRED_FILES : dir[f] # Absent

\* ok = all((model_path / f).exists() for f in required)
required_exist(dir) == \A f \in REQUIRED_FILES : dir[f] # Absent

\* download_models_from_storage(MODEL_DIR): <<directory afterwards, return value>>
download_models_from_storage(dir, bucket, client, p) ==
    IF ~client THEN <<dir, FALSE>>
    ELSE <<downloaded_dir(dir, bucket, p), required_exist(downloaded_dir(dir, bucket, p))>>

----------------------------------------------------------------------------
(* retrain_engine.py *)

\* _count_new_finished_games(): Final games without a row in results
count_new_finished_games ==
    Cardinality({g \in 1..finalGames : ~\E r \in results : r.game_id = g})

\* _db_has_completed_games()
db_has_completed_games == finalGames > 0

\* variants of the step-1 test: taken on force only; never taken
use_cached_inverted(cached, force) == cached # None /\ force

use_cached_never(cached, force) == FALSE

\* step 1 of ensure_models: "if cached is not None and not force"
use_cached(cached, force) == cached # None /\ ~force

\* step 3 of ensure_models: "if cached is not None and new_games < MIN_RETRAIN_GAMES"
reuse_cached(cached, new_games) == cached # None /\ new_games < MIN_RETRAIN_GAMES

\* variant: the upload result is ignored
upload_never_failed(ok) == FALSE

\* "if not upload_models_to_storage(MODEL_DIR): raise RuntimeError"
upload_failed(ok) == ~ok

\* the record of one ensure_models call
\* force: the argument; outcome: "returned" or "raised"; source, bundle: the
\* bundle returned and its source tag; downloads, trainings, uploads: the calls
\* made of download_models_from_storage, train_models, upload_models_to_storage;
\* downloaded, uploaded: what ensure_models' own download and upload returned
Call(force, outcome, source, bundle, downloads, trainings, uploads, downloaded, uploaded) ==
    [op |-> "ensure_models", force |-> force, outcome |-> outcome,
     source |-> source, bundle |-> bundle, downloads |-> downloads,
     trainings |-> trainings, uploads |-> uploads,
     downloaded |-> downloaded, uploaded |-> uploaded]

\* how a call's record names the value a storage helper returned
Returned(ok) == IF ok THEN "ok" ELSE "failed"

\* train_models(df): the directory and bucket it leaves, whether it raised,
\* and the bundle it returns.  `fit` is whether the scikit-learn calls between
\* _bump_version and the pickling return normally; p1 is the outcome of the
\* upload train_models makes itself (its result is ignored).
train_models(dir, bucket, client, fit, p1) ==
    LET new_version == bump_version(current_version(dir))
        bumped == [dir EXCEPT ![VERSION_FILE] = new_version]
        pickled == [f \in MODEL_STORAGE_FILES |->
                      IF f \in MODEL_FILES THEN new_version ELSE bumped[f]]
    IN  IF FEATURE_COUNT < MIN_FEATURE_COUNT
        THEN [dir |-> dir, bucket |-> bucket, raised |-> TRUE, bundle |-> None]
        ELSE IF ~fit
        THEN [dir |-> bumped, bucket |-> bucket, raised |-> TRUE, bundle |-> None]
        ELSE [dir |-> pickled,
              bucket |-> upload_models_to_storage(pickled, bucket, client, p1)[1],
              raised |-> FALSE,
              bundle |-> [missing |-> FALSE, home |-> new_version,
                          away |-> new_version, spread |-> new_version,
                          total |-> new_version, version |-> new_version]]

\* the transfers that can happen: none fails when there is no client to call
FaultsOf(client, patterns) ==
    IF client THEN patterns ELSE {[f \in MODEL_STORAGE_FILES |-> "ok"]}

\* what bootstrap_historical_data() gets from the games API when the table
\* holds no Final game: it raises (-1), or so many Final games are stored
BootOutcomes == {-1, 0, MIN_RETRAIN_GAMES}

NoCall ==
    [op |-> "none", force |-> FALSE, outcome |-> "none", source |-> "unknown",
     bundle |-> None, downloads |-> 0, trainings |-> 0, uploads |-> 0,
     downloaded |-> "none", uploaded |-> "none"]

\* ensure_models(force)
ensure_models(force) ==
    LET cached == load_models(local)
    IN  IF use_cached(cached, force)
        THEN /\ last' = Call(force, "returned", "cached", cached, 0, 0, 0, "none", "none")
             /\ UNCHANGED <<local, remote, available, finalGames, results, snapshot, predictions, reviewVars, simVars>>
        ELSE \E pd \in FaultsOf(available, DownloadFaults) :
            LET dl == download_models_from_storage(local, remote, available, pd)
                restored == load_models(dl[1])
            IN  IF dl[2] /\ restored # None
                THEN /\ local' = dl[1]
                     /\ last' = Call(force, "returned", "supabase", restored, 1, 0, 0, Returned(dl[2]), "none")
                     /\ UNCHANGED <<remote, available, finalGames, results, snapshot, predictions, reviewVars, simVars>>
                ELSE IF reuse_cached(cached, count_new_finished_games)
                THEN /\ local' = dl[1]
                     /\ last' = Call(force, "returned", "cached", cached, 1, 0, 0, Returned(dl[2]), "none")
                     /\ UNCHANGED <<remote, available, finalGames, results, snapshot, predictions, reviewVars, simVars>>
                ELSE \E boot \in IF db_has_completed_games THEN {0} ELSE BootOutcomes :
                    IF boot < 0
                    THEN /\ local' = dl[1]
                         /\ last' = Call(force, "raised", "unknown", None, 1, 0, 0, Returned(dl[2]), "none")
                         /\ UNCHANGED <<remote, available, finalGames, results, snapshot, predictions, reviewVars, simVars>>
                    ELSE IF finalGames + boot = 0
                    THEN /\ local' = dl[1]
                         /\ last' = Call(force, "raised", "unknown", None, 1, 0, 0, Returned(dl[2]), "none")
                         /\ UNCHANGED <<remote, available, finalGames, results, snapshot, predictions, reviewVars, simVars>>
                    ELSE \E fit \in BOOLEAN :
                         \E p1 \in IF fit THEN FaultsOf(available, Faults) ELSE FaultsOf(FALSE, Faults) :
                         \E p2 \in IF fit THEN FaultsOf(available, Faults) ELSE FaultsOf(FALSE, Faults) :
                        LET tm == train_models(dl[1], remote, available, fit, p1)
                            up == upload_models_to_storage(tm.dir, tm.bucket, available, p2)
                        IN  /\ bump_version(current_version(dl[1])) <= MaxVersion
                            /\ finalGames' = finalGames + boot
                            /\ UNCHANGED <<available, results, snapshot, predictions, reviewVars, simVars>>
                            /\ IF tm.raised
                               THEN /\ local' = tm.dir
                                    /\ remote' = tm.bucket
                                    /\ last' = Call(force, "raised", "unknown", None, 1, 1, 0, Returned(dl[2]), "none")
                               ELSE IF upload_failed(up[2])
                               THEN /\ local' = tm.dir
                                    /\ remote' = up[1]
                                    /\ last' = Call(force, "raised", "unknown", None, 1, 1, 2, Returned(dl[2]), Returned(up[2]))
                               ELSE /\ local' = tm.dir
                                    /\ remote' = up[1]
                                    /\ last' = Call(force, "returned", "trained", tm.bundle, 1, 1, 2, Returned(dl[2]), Returned(up[2]))

----------------------------------------------------------------------------
(* game_simulator.py *)

\* the generator numpy makes for a seed is a cycle of RNG_PERIOD states
RNG_PERIOD == 16

\* "seed = int(game_id) % 1_000_000"
SEED_MODULUS == 1000000

\* "np.clip(scores, 70, 170)"
CLIP_LOW == 70
CLIP_HIGH == 170

\* "max(np.sqrt(variance), 8.0)"
MIN_STD == 8

\* variant: the generator goes on from the state the last call left
shared_rng(game_id, state) == state

\* "rng = np.random.default_rng(seed)": a generator of its own for the call,
\* whatever state the generator of an earlier call was left in
default_rng(game_id, state) == (game_id % SEED_MODULUS) % RNG_PERIOD

\* the state of the generator after one draw
rng_next(state) == (5 * state + 3) % RNG_PERIOD

\* the standard normal deviate a state gives, in whole standard deviations
rng_deviate(state) == (state % 5) - 2

RECURSIVE rng_advance(_, _)
\* the state after k draws
rng_advance(state, k) == IF k = 0 THEN state ELSE rng_advance(rng_next(state), k - 1)

\* np.sqrt(variance), rounded down
sqrt(variance) == CHOOSE r \in 0..variance : r * r <= variance /\ variance < (r + 1) * (r + 1)

max(a, b) == IF a >= b THEN a ELSE b

clip(x, low, high) == IF x < low THEN low ELSE IF x > high THEN high ELSE x

\* rng.normal(mean, std, n_sim)[k - 1] clipped, drawn by a generator that was
\* in `state` before the n_sim draws
clipped_score(mean, std, state, k) ==
    clip(mean + std * rng_deviate(rng_advance(state, k)), CLIP_LOW, CLIP_HIGH)

RECURSIVE sum(_, _)
\* the sum of f over 1..n
sum(f, n) == IF n = 0 THEN 0 ELSE f[n] + sum(f, n - 1)

\* run_possession_simulation(game_id, ...) with a generator made from
\* `state`: the probabilities and the moments as sums over the n_sim draws
\* (counts instead of fractions, sums instead of means)
run_possession_simulation(a, state) ==
    LET g0 == default_rng(a.game_id, state)
        home_std == max(sqrt(a.home_variance), MIN_STD)
        away_std == max(sqrt(a.away_variance), MIN_STD)
        home_scores == [k \in 1..a.n_sim |->
                           clipped_score(a.predicted_home_score, home_std, g0, k)]
        away_scores == [k \in 1..a.n_sim |->
                           clipped_score(a.predicted_away_score, away_std, g0, a.n_sim + k)]
        margins == [k \in 1..a.n_sim |-> home_scores[k] - away_scores[k]]
        totals == [k \in 1..a.n_sim |-> home_scores[k] + away_scores[k]]
    IN  [missing |-> FALSE,
         spread_cover_count |->
             Cardinality({k \in 1..a.n_sim : margins[k] + a.spread_line > 0}),
         over_count |-> Cardinality({k \in 1..a.n_sim : totals[k] > a.total_line}),
         home_score_sum |-> sum(home_scores, a.n_sim),
         visitor_score_sum |-> sum(away_scores, a.n_sim),
         margin_sum |-> sum(margins, a.n_sim),
         total_sum |-> sum(totals, a.n_sim),
         margin_square_sum |-> sum([k \in 1..a.n_sim |-> margins[k] * margins[k]], a.n_sim),
         total_square_sum |-> sum([k \in 1..a.n_sim |-> totals[k] * totals[k]], a.n_sim),
         simulation_count |-> a.n_sim,
         generator |-> rng_advance(g0, 2 * a.n_sim)]

\* the arguments the simulator is called with
SimArgs ==
    {[game_id |-> g, predicted_home_score |-> sc[1], predicted_away_score |-> sc[2],
      home_variance |-> 64, away_variance |-> 144,
      spread_line |-> -4, total_line |-> 218, n_sim |-> MaxDraws] :
        g \in {1, 2}, sc \in {<<114, 104>>, <<100, 108>>}}

\* no simulation has run
NoSims ==
    /\ rng = 0
    /\ sims = [a \in SimArgs |-> [calls |-> 0, result |-> None]]

\* one call of run_possession_simulation
Simulate ==
    \E a \in SimArgs :
        LET sim == run_possession_simulation(a, rng)
        IN  /\ sims[a].calls < MaxCalls
            /\ rng' = sim.generator
            /\ sims' = [sims EXCEPT ![a] = [calls |-> sims[a].calls + 1,
                                            result |-> sim]]
            /\ last' = [op |-> "run_possession_simulation", args |-> a, result |-> sim]
            /\ UNCHANGED <<local, remote, available, finalGames, results, snapshot,
                           predictions, reviewVars>>

----------------------------------------------------------------------------
(* The lifecycle specification: ensure_models called again and again *)

\* the numbers of Final games the games table starts with
GameCounts == {0, MIN_RETRAIN_GAMES - 1, MIN_RETRAIN_GAMES}

\* a row of table results
ResultRow(g, home, visitor) ==
    [game_id |-> g, final_home_score |-> home, final_visitor_score |-> visitor]

\* what GET /games/{id} answers for a game
ApiGame(status, home, visitor) ==
    [status |-> status, home_team_score |-> home, visitor_team_score |-> visitor]

\* a game that has not been played to the end
Scheduled == ApiGame("7:30 pm ET", 0, 0)

\* nothing reviewed yet, no game finished, the clock at its origin
NoReviews ==
    /\ review_results = {}
    /\ api = [g \in 1..MaxGames |-> Scheduled]
    /\ now = 0

\* the record tables the lifecycle starts with: no prediction, and no result
\* or the result of game 1
InitTables ==
    /\ finalGames \in GameCounts
    /\ results \in {{}} \cup {{ResultRow(1, 110, 100)} : g \in {1} \cap 1..finalGames}
    /\ snapshot = <<>>
    /\ predictions = <<>>
    /\ last = NoCall
    /\ NoReviews
    /\ NoSims

\* local and remote storage agree, or both are empty
InitSynced ==
    /\ local \in {EmptyDir, TrainedDir(2)}
    /\ remote = local
    /\ available \in BOOLEAN
    /\ InitTables

\* as InitSynced, or a fresh checkout: no local models, a bundle in the bucket
Init ==
    /\ local \in {EmptyDir, TrainedDir(2)}
    /\ remote \in {local, TrainedDir(2)}
    /\ available \in BOOLEAN
    /\ InitTables

EnsureModels == \E force \in BOOLEAN : ensure_models(force)

Next == EnsureModels

Spec == Init /\ [][Next]_vars

SpecSynced == InitSynced /\ [][Next]_vars

\* SUPABASE_URL / SUPABASE_KEY are not set, as tests/test_ensure_models.py runs
InitNoSupabase == Init /\ ~available

SpecNoSupabase == InitNoSupabase /\ [][Next]_vars

----------------------------------------------------------------------------
(* The restore specification: download_models_from_storage called on its own *)

\* download_models_from_storage(MODEL_DIR), with the per-file outcomes of its
\* downloads
DownloadModels ==
    \E pd \in FaultsOf(available, DownloadFaults) :
        LET dl == download_models_from_storage(local, remote, available, pd)
        IN  /\ local' = dl[1]
            /\ last' = [op |-> "download_models_from_storage", downloads |-> pd,
                        result |-> dl[2]]
            /\ UNCHANGED <<remote, available, finalGames, results, snapshot,
                           predictions, reviewVars, simVars>>

InitRestore == Init

NextRestore == DownloadModels

SpecRestore == InitRestore /\ [][NextRestore]_vars

----------------------------------------------------------------------------
(* The artifact specification: training runs and restores in any order *)

\* train_models(df) on a training frame that is not empty
TrainModels ==
    \E fit \in BOOLEAN :
    \E p1 \in IF fit THEN FaultsOf(available, Faults) ELSE FaultsOf(FALSE, Faults) :
        LET tm == train_models(local, remote, available, fit, p1)
        IN  /\ bump_version(current_version(local)) <= MaxVersion
            /\ local' = tm.dir
            /\ remote' = tm.bucket
            /\ last' = [op |-> "train_models", raised |-> tm.raised, bundle |-> tm.bundle]
            /\ UNCHANGED <<available, finalGames, results, snapshot,
                           predictions, reviewVars, simVars>>

InitArtifacts == Init

NextArtifacts == TrainModels \/ DownloadModels

SpecArtifacts == InitArtifacts /\ [][NextArtifacts]_vars

----------------------------------------------------------------------------
(* database.py, rating_engine.py: the record tables *)

\* the columns init_db gives table predictions_snapshot
PREDICTIONS_SNAPSHOT_COLUMNS ==
    {"id", "snapshot_date", "game_id", "prediction_time", "spread_pick",
     "spread_prob", "total_pick", "total_prob", "confidence_score",
     "star_rating", "recommendation_index", "expected_home_score",
     "expected_visitor_score", "simulation_variance", "opening_spread",
     "live_spread", "opening_total", "live_total", "details_json"}

\* A market line is <<>> (None) or <<x>>.
NoLine == <<>>

\* the picks run_prediction writes: the spread pick of the visitor carries
\* the marker "受让", the total pick is "大分" (over) or "小分" (under)
HOME_PICK == "home -4"
AWAY_PICK == "away +4 (shou rang)"
OVER_PICK == "da fen"
UNDER_PICK == "xiao fen"

\* "受让" in spread_pick
has_shourang(spread_pick) == spread_pick = AWAY_PICK

\* is_spread_correct(spread_pick, margin, live_spread)
is_spread_correct(spread_pick, margin, live_spread) ==
    IF live_spread = NoLine THEN FALSE
    ELSE \/ (~has_shourang(spread_pick) /\ margin + live_spread[1] > 0)
         \/ (has_shourang(spread_pick) /\ margin + live_spread[1] <= 0)

\* is_total_correct(total_pick, total_points, live_total)
is_total_correct(total_pick, total_points, live_total) ==
    IF live_total = NoLine THEN FALSE
    ELSE \/ (total_pick = OVER_PICK /\ total_points > live_total[1])
         \/ (total_pick = UNDER_PICK /\ total_points <= live_total[1])

\* the row table predictions_snapshot stores for a prediction: the columns
\* of init_db (those that carry no decision are left out)
SnapshotRow(id, snapshot_date, row) ==
    [id |-> id, snapshot_date |-> snapshot_date, game_id |-> row.game_id,
     spread_pick |-> row.spread_pick, total_pick |-> row.total_pick,
     live_spread |-> row.live_spread, live_total |-> row.live_total]

\* insert_prediction(snapshot_date, row): INSERT OR IGNORE under
\* UNIQUE(snapshot_date, game_id)
insert_prediction(table, snapshot_date, row) ==
    IF \E i \in DOMAIN table :
          table[i].snapshot_date = snapshot_date /\ table[i].game_id = row.game_id
    THEN table
    ELSE Append(table, SnapshotRow(Len(table) + 1, snapshot_date, row))

\* save_result(game_id, home, visitor): upsert on game_id
save_result(table, g, home, visitor) ==
    {r \in table : r.game_id # g} \cup {ResultRow(g, home, visitor)}

\* save_prediction(row) of supabase_client: the row is inserted with
\* is_final_prediction = True in its payload; without a client nothing is
\* done, and an insert that raises is logged and dropped
save_prediction(table, client, row, inserted) ==
    IF ~client \/ ~inserted THEN table
    ELSE Append(table,
                [id |-> Len(table) + 1, game_id |-> row.game_id,
                 payload |-> [game_id |-> row.game_id,
                              game_date |-> row.game_date,
                              spread_pick |-> row.spread_pick,
                              total_pick |-> row.total_pick,
                              live_spread |-> row.live_spread,
                              live_total |-> row.live_total,
                              details |-> row.details,
                              is_final_prediction |-> TRUE]])

----------------------------------------------------------------------------
(* retrain_engine.py: the retrain trigger *)

\* PERFORMANCE_THRESHOLD = 0.45, in percent
PERFORMANCE_THRESHOLD == 45

\* "if len(rows) < 10: return False"
MIN_SAMPLE == 10

\* LIMIT 30
SAMPLE_LIMIT == 30

\* the columns of predictions_snapshot the degradation query names
DEGRADATION_QUERY_COLUMNS ==
    {"spread_pick", "total_pick", "live_spread", "live_total", "game_id",
     "is_final_prediction", "created_at"}

\* conn.execute raises sqlite3.OperationalError (no such column)
query_raises(columns) == ~(DEGRADATION_QUERY_COLUMNS \subseteq columns)

\* the result row of a game that has one
result_of(g) == CHOOSE r \in results : r.game_id = g

\* p JOIN results r ON p.game_id = r.game_id WHERE p.is_final_prediction = 1
joined == {i \in DOMAIN snapshot :
              /\ \E r \in results : r.game_id = snapshot[i].game_id
              /\ snapshot[i].is_final_prediction = 1}

\* ORDER BY p.created_at DESC LIMIT 30: the rows with fewer than 30 newer ones
query_rows ==
    {i \in joined :
        Cardinality({j \in joined : snapshot[j].created_at > snapshot[i].created_at})
            < SAMPLE_LIMIT}

\* the loop over the rows: <<hits, total>>
RECURSIVE count_hits(_)
count_hits(rows) ==
    IF rows = {} THEN <<0, 0>>
    ELSE LET i == CHOOSE j \in rows : TRUE
             p == snapshot[i]
             r == result_of(p.game_id)
             margin == r.final_home_score - r.final_visitor_score
             total_pts == r.final_home_score + r.final_visitor_score
             rest == count_hits(rows \ {i})
             s == IF p.live_spread # NoLine
                  THEN <<IF is_spread_correct(p.spread_pick, margin, p.live_spread)
                         THEN 1 ELSE 0, 1>>
                  ELSE <<0, 0>>
             t == IF p.live_total # NoLine
                  THEN <<IF is_total_correct(p.total_pick, total_pts, p.live_total)
                         THEN 1 ELSE 0, 1>>
                  ELSE <<0, 0>>
         IN  <<rest[1] + s[1] + t[1], rest[2] + s[2] + t[2]>>

\* accuracy < PERFORMANCE_THRESHOLD, for accuracy = hits / total
below_threshold(hits, total) == hits * 100 < PERFORMANCE_THRESHOLD * total

\* _check_performance_degradation(): an exception inside the try block is
\* logged and the function returns False
check_performance_degradation ==
    IF query_raises(PREDICTIONS_SNAPSHOT_COLUMNS) THEN FALSE
    ELSE IF Cardinality(query_rows) < MIN_SAMPLE THEN FALSE
    ELSE IF count_hits(query_rows)[2] = 0 THEN FALSE
    ELSE below_threshold(count_hits(query_rows)[1], count_hits(query_rows)[2])

\* variant: a strict comparison
more_new_games(new_games) == new_games > MIN_RETRAIN_GAMES

\* "new_games >= MIN_RETRAIN_GAMES"
enough_new_games(new_games) == new_games >= MIN_RETRAIN_GAMES

\* should_retrain(force)
should_retrain(force) ==
    IF force THEN TRUE
    ELSE IF check_performance_degradation THEN TRUE
    ELSE enough_new_games(count_new_finished_games) \/ load_models(local) = None

----------------------------------------------------------------------------
(* The retrain-trigger specification: should_retrain and the degradation  *)
(* detector applied to record tables of bounded shapes                     *)

\* what the score models and the simulation give for a game: the predicted
\* margin and total, and the combined probability of the over in percent
ModelOutputs ==
    {[predicted_margin |-> 6, predicted_total |-> 222, total_over_prob |-> 60],
     [predicted_margin |-> 2, predicted_total |-> 214, total_over_prob |-> 40]}

\* run_prediction, "Hybrid spread decision" and "Hybrid total decision": the
\* picks of a prediction row, its live lines, and the details it stores
\* (details.simulation carries the simulated means of margin and total)
decide(out, live_spread, live_total) ==
    [spread_pick |-> IF out.predicted_margin > -live_spread THEN HOME_PICK ELSE AWAY_PICK,
     total_pick |-> IF out.predicted_total > live_total THEN OVER_PICK ELSE UNDER_PICK,
     live_spread |-> <<live_spread>>, live_total |-> <<live_total>>,
     details |-> [simulation |-> [predicted_margin |-> out.predicted_margin,
                                  predicted_total |-> out.predicted_total],
                  total_rating |-> [total_confidence |-> out.total_over_prob]]]

\* what a prediction row decides: its picks and the live lines
PickInputs == {decide(out, -4, 218) : out \in ModelOutputs}

\* a prediction stored without market lines
NoLineInputs ==
    {[spread_pick |-> HOME_PICK, total_pick |-> OVER_PICK,
      live_spread |-> NoLine, live_total |-> NoLine]}

\* final scores <<home, visitor>>: the home side covers -4 and the total goes
\* over 218, or the visitor covers and the total stays under
FinalScores == {<<120, 100>>, <<100, 112>>}

SNAPSHOT_DATES == {"2025-01-15", "2025-01-16"}

\* the sizes of the prediction sample: around MIN_SAMPLE and SAMPLE_LIMIT
SampleSizes == {0, MIN_SAMPLE - 1, MIN_SAMPLE, SAMPLE_LIMIT + 1}

\* table predictions_snapshot after predictions of the games 1..n on one
\* date, the first k with inputs a and the others with inputs b
SampleSnapshot(n, k, a, b) ==
    [i \in 1..n |->
        SnapshotRow(i, "2025-01-15",
                    [game_id |-> i,
                     spread_pick |-> (IF i <= k THEN a ELSE b).spread_pick,
                     total_pick |-> (IF i <= k THEN a ELSE b).total_pick,
                     live_spread |-> (IF i <= k THEN a ELSE b).live_spread,
                     live_total |-> (IF i <= k THEN a ELSE b).live_total])]

\* table results after save_result for the games 1..n
SampleResults(n, k, sa, sb) ==
    {ResultRow(i, (IF i <= k THEN sa ELSE sb)[1], (IF i <= k THEN sa ELSE sb)[2]) :
        i \in 1..n}

InitRetrain ==
    /\ local \in {EmptyDir, TrainedDir(2)}
    /\ remote = local
    /\ available = TRUE
    /\ predictions = <<>>
    /\ last = NoCall
    /\ NoReviews
    /\ NoSims
    /\ \E n \in SampleSizes, extra \in GameCounts :
       \E k \in 0..n :
       \E a \in PickInputs \cup NoLineInputs, b \in PickInputs :
       \E sa \in FinalScores, sb \in FinalScores :
          /\ finalGames = n + extra
          /\ snapshot = SampleSnapshot(n, k, a, b)
          /\ results = SampleResults(n, k, sa, sb)

ShouldRetrain ==
    \E force \in BOOLEAN :
        /\ last' = [op |-> "should_retrain", force |-> force,
                    result |-> should_retrain(force)]
        /\ UNCHANGED <<local, remote, available, finalGames, results, snapshot, predictions, reviewVars, simVars>>

CheckPerformanceDegradation ==
    /\ last' = [op |-> "check_performance_degradation",
                result |-> check_performance_degradation]
    /\ UNCHANGED <<local, remote, available, finalGames, results, snapshot, predictions, reviewVars, simVars>>

NextRetrain == ShouldRetrain \/ CheckPerformanceDegradation

SpecRetrain == InitRetrain /\ [][NextRetrain]_vars

----------------------------------------------------------------------------
(* The record-store specification: predictions persisted one after another *)

Games == 1..MaxGames

\* run_prediction, "Step 6: Save prediction to database" and "Supabase
\* persistence": insert_prediction(snapshot_date=target_date, row) and then
\* save_prediction({**row, "game_date": target_date, ...})
prediction_row(g, target_date, inputs) ==
    [game_id |-> g, game_date |-> target_date,
     spread_pick |-> inputs.spread_pick, total_pick |-> inputs.total_pick,
     live_spread |-> inputs.live_spread, live_total |-> inputs.live_total,
     details |-> inputs.details]

persist_prediction(g, target_date, inputs, inserted) ==
    LET row == prediction_row(g, target_date, inputs)
    IN  /\ Len(snapshot) < MaxPredictions
        /\ Len(predictions) < MaxPredictions
        /\ snapshot' = insert_prediction(snapshot, target_date, row)
        /\ predictions' = save_prediction(predictions, available, row, inserted)
        /\ last' = [op |-> "persist_prediction", game_id |-> g,
                    snapshot_date |-> target_date]
        /\ UNCHANGED <<local, remote, available, finalGames, results, reviewVars, simVars>>

PersistPrediction ==
    \E g \in Games, d \in SNAPSHOT_DATES, inputs \in PickInputs, inserted \in BOOLEAN :
        persist_prediction(g, d, inputs, inserted)

InitStore ==
    /\ local = TrainedDir(2)
    /\ remote = local
    /\ available \in BOOLEAN
    /\ finalGames = 0
    /\ results = {}
    /\ snapshot = <<>>
    /\ predictions = <<>>
    /\ last = NoCall
    /\ NoReviews
    /\ NoSims

NextStore == PersistPrediction

SpecStore == InitStore /\ [][NextStore]_vars

----------------------------------------------------------------------------
(* review_engine.py, supabase_client.py: the review *)

\* load_latest_predictions(): the newest row of table predictions per game
load_latest_predictions(table, client) ==
    IF ~client THEN {}
    ELSE {table[i] : i \in {i \in DOMAIN table :
                              \A j \in DOMAIN table :
                                 table[j].game_id = table[i].game_id => j <= i}}

\* parse_prediction(row)
parse_prediction(row) ==
    LET sim == row.payload.details.simulation
        total_rating == row.payload.details.total_rating
    IN  [game_id |-> row.game_id,
         spread_pick |-> IF sim.predicted_margin > 0 THEN "home" ELSE "away",
         total_pick |-> IF total_rating.total_confidence > 50 THEN "over" ELSE "under",
         predicted_margin |-> sim.predicted_margin,
         predicted_total |-> sim.predicted_total]

\* fetch_game_result(game_id): None when the request fails or the status is
\* not "Final"
fetch_game_result(game, answered) ==
    IF ~answered \/ game.status # "Final" THEN None
    ELSE [missing |-> FALSE,
          home_score |-> game.home_team_score,
          visitor_score |-> game.visitor_team_score,
          spread |-> 0, total |-> 0]

\* variant: a push counts for the home pick
calc_spread_hit_push(pred_pick, final_home, final_visitor, spread_line) ==
    LET adjusted_margin == (final_home - final_visitor) + spread_line
    IN  IF pred_pick = "home" THEN adjusted_margin >= 0
        ELSE IF pred_pick = "away" THEN adjusted_margin < 0
        ELSE FALSE

\* calc_spread_hit(pred_pick, ..., final_home, final_visitor, spread_line)
calc_spread_hit(pred_pick, final_home, final_visitor, spread_line) ==
    LET adjusted_margin == (final_home - final_visitor) + spread_line
    IN  IF pred_pick = "home" THEN adjusted_margin > 0
        ELSE IF pred_pick = "away" THEN adjusted_margin < 0
        ELSE FALSE

\* calc_total_hit(total_pick, final_home, final_visitor, total_line)
calc_total_hit(total_pick, final_home, final_visitor, total_line) ==
    LET final_total == final_home + final_visitor
    IN  IF total_pick = "over" THEN final_total > total_line
        ELSE IF total_pick = "under" THEN final_total < total_line
        ELSE FALSE

\* row.get("created_at", ""): timestamps are numbers, "" is 0
created_at(row) == IF "created_at" \in DOMAIN row THEN row.created_at ELSE 0

\* variant: a row as new as the one kept replaces it
newer_or_same(row, kept) == created_at(row) >= created_at(kept)

\* row.get("created_at", "") > latest[gid].get("created_at", "")
newer(row, kept) == created_at(row) > created_at(kept)

RECURSIVE deduplicate(_, _)
\* the loop of _deduplicate_predictions: latest holds the row kept for each
\* game_id, in the order the game_ids were first seen
deduplicate(preds, latest) ==
    IF preds = <<>> THEN latest
    ELSE LET row == Head(preds)
             seen == {i \in DOMAIN latest : latest[i].game_id = row.game_id}
         IN  IF seen = {}
             THEN deduplicate(Tail(preds), Append(latest, row))
             ELSE LET i == CHOOSE i \in seen : TRUE
                  IN  deduplicate(Tail(preds),
                                  IF newer(row, latest[i])
                                  THEN [latest EXCEPT ![i] = row]
                                  ELSE latest)

\* _deduplicate_predictions(predictions)
deduplicate_predictions(preds) == deduplicate(preds, <<>>)

\* prediction rows: of game 1 one without created_at, an old one and two of
\* the same newest time; one of game 2
PredictionRows ==
    {[game_id |-> 1, payload |-> "no_ts"],
     [game_id |-> 1, created_at |-> 1, payload |-> "old"],
     [game_id |-> 1, created_at |-> 2, payload |-> "new"],
     [game_id |-> 1, created_at |-> 2, payload |-> "tie"],
     [game_id |-> 2, created_at |-> 1, payload |-> "only"]}

\* the lists of rows: some of the rows, in any order
PredictionLists ==
    UNION {{l \in [1 .. Cardinality(rows) -> rows] :
               \A i, j \in DOMAIN l : i # j => l[i] # l[j]} :
           rows \in SUBSET PredictionRows}

DeduplicatePredictions ==
    \E preds \in PredictionLists :
        /\ last' = [op |-> "_deduplicate_predictions", predictions |-> preds,
                    result |-> deduplicate_predictions(preds)]
        /\ UNCHANGED <<local, remote, available, finalGames, results, snapshot,
                       predictions, reviewVars, simVars>>

\* the picks, final scores and lines a hit is computed for; "" is the pick of
\* a prediction whose pick could not be parsed
HitPicks == {"home", "away", "over", "under", ""}
HitScores == {96, 100, 104, 110}
HitSpreadLines == {-6, -4, 0, 4, 6}
HitTotalLines == {196, 200, 204, 214, 220}

CalcSpreadHit ==
    \E pred_pick \in HitPicks, final_home \in HitScores, final_visitor \in HitScores,
       spread_line \in HitSpreadLines :
        /\ last' = [op |-> "calc_spread_hit", pick |-> pred_pick,
                    final_home |-> final_home, final_visitor |-> final_visitor,
                    line |-> spread_line,
                    result |-> calc_spread_hit(pred_pick, final_home, final_visitor,
                                               spread_line)]
        /\ UNCHANGED <<local, remote, available, finalGames, results, snapshot,
                       predictions, reviewVars, simVars>>

CalcTotalHit ==
    \E total_pick \in HitPicks, final_home \in HitScores, final_visitor \in HitScores,
       total_line \in HitTotalLines :
        /\ last' = [op |-> "calc_total_hit", pick |-> total_pick,
                    final_home |-> final_home, final_visitor |-> final_visitor,
                    line |-> total_line,
                    result |-> calc_total_hit(total_pick, final_home, final_visitor,
                                              total_line)]
        /\ UNCHANGED <<local, remote, available, finalGames, results, snapshot,
                       predictions, reviewVars, simVars>>

\* the record run_review builds for a prediction and the result of its game
review_record(p, result, reviewed_at) ==
    LET pred == parse_prediction(p)
    IN  [game_id |-> p.game_id,
         spread_pick |-> pred.spread_pick,
         total_pick |-> pred.total_pick,
         spread_hit |-> calc_spread_hit(pred.spread_pick, result.home_score,
                                        result.visitor_score, result.spread),
         ou_hit |-> calc_total_hit(pred.total_pick, result.home_score,
                                   result.visitor_score, result.total),
         final_home_score |-> result.home_score,
         final_visitor_score |-> result.visitor_score,
         reviewed_at |-> reviewed_at]

REVIEW_RECORD_KEYS ==
    {"game_id", "spread_pick", "total_pick", "spread_hit", "ou_hit",
     "final_home_score", "final_visitor_score", "reviewed_at"}

\* get_table_columns("review_results"): the columns of the record, or none
\* when the discovery fails
DiscoveredColumns == {{}, REVIEW_RECORD_KEYS}

\* how client.table(...).upsert(...).execute() ends: it returns, it raises
\* once and would return if called again, or it raises whenever it is called
UpsertOutcomes == {"ok", "transient", "down"}

\* "filtered = {k: v for k, v in record.items() if k in cols}"
filtered(record, cols) == [k \in DOMAIN record \cap cols |-> record[k]]

\* the calls of upsert(...).execute() adaptive_upsert makes for a record
upsert_attempts(client, record, cols) ==
    IF ~client \/ filtered(record, cols) = <<>> THEN 0 ELSE 1

\* whether the calls adaptive_upsert makes write the record
upsert_written(attempts, outcome) == attempts >= 1 /\ outcome = "ok"

\* variant: a plain insert
upsert_insert(table, row) == table \cup {row}

\* upsert(filtered, on_conflict="game_id"): the row of the game takes the
\* values given and keeps its other columns; without such a row one is added
upsert(table, row) ==
    LET old == {r \in table : r.game_id = row.game_id}
    IN  IF old = {} THEN table \cup {row}
        ELSE (table \ old) \cup
             {[k \in DOMAIN r \cup DOMAIN row |->
                  IF k \in DOMAIN row THEN row[k] ELSE r[k]] : r \in old}

\* save_review_result(row): adaptive_upsert("review_results", record), what
\* it raises is logged and dropped
save_review_result(table, client, cols, record, outcome) ==
    IF upsert_written(upsert_attempts(client, record, cols), outcome)
    THEN upsert(table, filtered(record, cols))
    ELSE table

RECURSIVE save_review_results(_, _, _, _, _)
\* the loop of run_review over the records of one run
save_review_results(table, client, cols, records, outcome) ==
    IF records = {} THEN table
    ELSE LET rec == CHOOSE r \in records : TRUE
         IN  save_review_results(
                 save_review_result(table, client, cols, rec, outcome[rec.game_id]),
                 client, cols, records \ {rec}, outcome)

\* the games run_review finds a result for
reviewed_games(answered) ==
    {p.game_id : p \in {p \in load_latest_predictions(predictions, available) :
                          fetch_game_result(api[p.game_id], answered[p.game_id]) # None}}

\* run_review(): every latest prediction whose game is Final is reviewed
\* and its record saved with reviewed_at = datetime.utcnow()
run_review(cols, answered, outcome) ==
    LET latest == load_latest_predictions(predictions, available)
        records == {review_record(p, fetch_game_result(api[p.game_id], TRUE), now) :
                       p \in {p \in latest : p.game_id \in reviewed_games(answered)}}
    IN  /\ now < MaxClock
        /\ now' = now + 1
        /\ review_results' = save_review_results(review_results, available, cols,
                                                 records, outcome)
        /\ last' = [op |-> "run_review",
                    reviewed |-> reviewed_games(answered),
                    attempts |-> [g \in reviewed_games(answered) |->
                                     upsert_attempts(available,
                                         CHOOSE r \in records : r.game_id = g, cols)],
                    transient |-> {g \in reviewed_games(answered) : outcome[g] = "transient"},
                    updated |-> {r.game_id : r \in review_results \ review_results'},
                    columns |-> cols]
        /\ UNCHANGED <<local, remote, available, finalGames, results, snapshot,
                       predictions, api, simVars>>

\* what _get_client() finds: no credentials, the client of an earlier call,
\* or credentials with which create_client returns a client or raises
ClientStates == {"unconfigured", "cached", "created", "raises"}

\* _get_client(): the client, or None, or the exception of create_client
get_client(state) ==
    [client |-> state \in {"cached", "created"}, raised |-> state = "raises"]

SAVE_FUNCTIONS ==
    {"save_prediction", "save_simulation_log", "save_training_log", "save_review_result"}

\* the functions that call _get_client() before their try block;
\* save_review_result calls it inside, through adaptive_upsert
CLIENT_OUTSIDE_TRY == {"save_prediction", "save_simulation_log", "save_training_log"}

\* a record run_review would save for a game
SavedReview(g) ==
    review_record(save_prediction(<<>>, TRUE,
                                  prediction_row(g, "2025-01-15",
                                                 decide(CHOOSE out \in ModelOutputs : TRUE,
                                                        -4, 218)),
                                  TRUE)[1],
                  fetch_game_result(ApiGame("Final", 102, 100), TRUE), now)

\* one call of save_prediction, save_simulation_log, save_training_log or
\* save_review_result; tables simulation_logs and training_logs are written
\* and never read
SaveRecord ==
    \E fn \in SAVE_FUNCTIONS, g \in Games, write_raises \in BOOLEAN :
    \E state \in IF available THEN ClientStates \ {"unconfigured"} ELSE {"unconfigured"} :
        LET gc == get_client(state)
            row == prediction_row(g, "2025-01-15",
                                  decide(CHOOSE out \in ModelOutputs : TRUE, -4, 218))
        IN  /\ fn = "save_prediction" => Len(predictions) < MaxPredictions
            /\ predictions' =
                   IF fn = "save_prediction" /\ ~gc.raised
                   THEN save_prediction(predictions, gc.client, row, ~write_raises)
                   ELSE predictions
            /\ review_results' =
                   IF fn = "save_review_result" /\ ~gc.raised
                   THEN save_review_result(review_results, gc.client, REVIEW_RECORD_KEYS,
                                           SavedReview(g),
                                           IF write_raises THEN "down" ELSE "ok")
                   ELSE review_results
            /\ last' = [op |-> fn, client |-> state, write_raises |-> write_raises,
                        game_id |-> g,
                        raised |-> fn \in CLIENT_OUTSIDE_TRY /\ gc.raised]
            /\ UNCHANGED <<local, remote, available, finalGames, results, snapshot,
                           api, now, simVars>>

RunReview ==
    \E cols \in DiscoveredColumns :
    \E answered \in [Games -> BOOLEAN] :
    \E outcome \in [Games -> UpsertOutcomes] :
        run_review(cols, answered, outcome)

\* the final scores the games end with
ApiScores == {<<102, 100>>, <<100, 112>>}

\* a game is played to the end: its status becomes "Final"
FinishGame ==
    \E g \in Games, score \in ApiScores :
        /\ api[g] = Scheduled
        /\ api' = [api EXCEPT ![g] = ApiGame("Final", score[1], score[2])]
        /\ last' = [op |-> "finish_game", game_id |-> g]
        /\ UNCHANGED <<local, remote, available, finalGames, results, snapshot,
                       predictions, review_results, now, simVars>>

\* table predictions after run_prediction has saved no prediction, one
\* prediction of game 1, or a second one of game 1 or of game 2
StoredPredictions ==
    {<<>>}
    \cup {save_prediction(<<>>, TRUE, prediction_row(1, "2025-01-15", a), TRUE) :
             a \in PickInputs}
    \cup {save_prediction(
              save_prediction(<<>>, TRUE, prediction_row(1, "2025-01-15", a), TRUE),
              TRUE, prediction_row(g, "2025-01-16", b), TRUE) :
             a \in PickInputs, b \in PickInputs, g \in {1, 2}}

InitReview ==
    /\ local = TrainedDir(2)
    /\ remote = local
    /\ available \in BOOLEAN
    /\ finalGames = 0
    /\ results = {}
    /\ snapshot = <<>>
    /\ predictions \in StoredPredictions
    /\ last = NoCall
    /\ NoReviews
    /\ NoSims

NextReview == FinishGame \/ RunReview

SpecReview == InitReview /\ [][NextReview]_vars

----------------------------------------------------------------------------
(* feature_engineering.py, prediction_engine.py: the feature rows.        *)
(* Feature values are whole numbers: every division rounds down.          *)

FEATURE_COLUMNS ==
    <<"home_off_rating", "home_def_rating", "home_net_rating",
      "away_off_rating", "away_def_rating", "away_net_rating",
      "home_pace", "away_pace", "pace_interaction",
      "home_avg_score_last5", "home_avg_allowed_last5", "home_margin_last5",
      "away_avg_score_last5", "away_avg_allowed_last5", "away_margin_last5",
      "home_avg_score_last10", "home_avg_allowed_last10", "home_margin_last10",
      "away_avg_score_last10", "away_avg_allowed_last10", "away_margin_last10",
      "home_indicator",
      "home_rest_days", "away_rest_days",
      "home_b2b", "away_b2b",
      "home_scoring_variance", "away_scoring_variance",
      "opp_home_def_eff", "opp_away_def_eff", "opp_home_off_eff", "opp_away_off_eff",
      "home_consistency", "away_consistency",
      "home_off_volatility", "away_off_volatility",
      "home_def_volatility", "away_def_volatility",
      "home_margin_trend", "away_margin_trend">>

FeatureNames == {FEATURE_COLUMNS[i] : i \in DOMAIN FEATURE_COLUMNS}

\* what follows "home" or "away" in the name of a column
COLUMN_TAILS ==
    {"_off_rating", "_def_rating", "_net_rating", "_pace",
     "_avg_score_last5", "_avg_allowed_last5", "_margin_last5",
     "_avg_score_last10", "_avg_allowed_last10", "_margin_last10",
     "_indicator", "_rest_days", "_b2b", "_scoring_variance", "_consistency",
     "_off_volatility", "_def_volatility", "_margin_trend"}

\* col.startswith(prefix)
startswith(col, prefix) == \E tail \in COLUMN_TAILS : col = prefix \o tail

\* float("nan")
NaN == -1000000

\* "limit=20" of _get_team_games
TEAM_GAMES_LIMIT == 20

\* the before_date "9999-12-31" of _build_prediction_features
FUTURE_DATE == 99991231

\* pd.Timestamp.max is 2262-04-11: pd.Timestamp of a later date raises
TIMESTAMP_MAX == 22620411

\* row.get("home_pace", 98.0)
DEFAULT_PACE == 98

RECURSIVE seq_sum(_)
seq_sum(s) == IF s = <<>> THEN 0 ELSE Head(s) + seq_sum(Tail(s))

\* np.mean(s)
mean(s) == IF s = <<>> THEN NaN ELSE seq_sum(s) \div Len(s)

\* np.var(s)
variance_of(s) == mean([i \in DOMAIN s |-> (s[i] - mean(s)) * (s[i] - mean(s))])

\* np.std(s)
std_of(s) == sqrt(variance_of(s))

\* s[:n]
first(s, n) == SubSeq(s, 1, IF Len(s) < n THEN Len(s) ELSE n)

RECURSIVE by_date_desc(_)
\* "ORDER BY date DESC"
by_date_desc(rows) ==
    IF rows = {} THEN <<>>
    ELSE LET r == CHOOSE r \in rows : \A q \in rows : q.date <= r.date
         IN  <<r>> \o by_date_desc(rows \ {r})

\* variant: "date <= ?" in the query
get_team_games_to_date(games, team_id, before_date) ==
    LET rows == by_date_desc({r \in games :
                    /\ r.date <= before_date
                    /\ r.status = "Final"
                    /\ (r.home_team_id = team_id \/ r.visitor_team_id = team_id)})
        limited == first(rows, TEAM_GAMES_LIMIT)
    IN  [i \in DOMAIN limited |->
            LET r == limited[i]
                is_home == r.home_team_id = team_id
                scored == IF is_home THEN r.home_score ELSE r.visitor_score
                allowed == IF is_home THEN r.visitor_score ELSE r.home_score
            IN  [scored |-> scored, allowed |-> allowed, margin |-> scored - allowed,
                 total |-> scored + allowed, date |-> r.date, is_home |-> is_home]]

\* _get_team_games(conn, team_id, before_date, limit=20)
get_team_games(games, team_id, before_date) ==
    LET rows == by_date_desc({r \in games :
                    /\ r.date < before_date
                    /\ r.status = "Final"
                    /\ (r.home_team_id = team_id \/ r.visitor_team_id = team_id)})
        limited == first(rows, TEAM_GAMES_LIMIT)
    IN  [i \in DOMAIN limited |->
            LET r == limited[i]
                is_home == r.home_team_id = team_id
                scored == IF is_home THEN r.home_score ELSE r.visitor_score
                allowed == IF is_home THEN r.visitor_score ELSE r.home_score
            IN  [scored |-> scored, allowed |-> allowed, margin |-> scored - allowed,
                 total |-> scored + allowed, date |-> r.date, is_home |-> is_home]]

\* the field of every game of a list
column(rows, field) == [i \in DOMAIN rows |-> rows[i][field]]

\* variant: the rest days without the try around pd.Timestamp
rest_days_unguarded(team_games, before_date) ==
    IF Len(team_games) >= 2
    THEN IF before_date > TIMESTAMP_MAX THEN NaN
         ELSE max(0, before_date - team_games[1].date)
    ELSE 3

\* the rest days of _compute_team_features
rest_days(team_games, before_date) ==
    IF Len(team_games) >= 2
    THEN IF before_date > TIMESTAMP_MAX THEN 2
         ELSE max(0, before_date - team_games[1].date)
    ELSE 3

\* _compute_team_features(conn, team_id, opponent_id, before_date, prefix)
compute_team_features(games, team_id, opponent_id, before_date, prefix) ==
    LET team_games == get_team_games(games, team_id, before_date)
        opp_games == get_team_games(games, opponent_id, before_date)
        scores == column(team_games, "scored")
        allowed == column(team_games, "allowed")
        avg_score == mean(scores)
        avg_allowed == mean(allowed)
        pace == mean(column(team_games, "total")) \div 2
        last5 == first(team_games, 5)
        last10 == first(team_games, 10)
        rest == rest_days(team_games, before_date)
        std_score == IF Len(scores) >= 2 THEN std_of(scores) ELSE 1
        off_rating == (avg_score * 100) \div max(pace, 80)
        def_rating == (avg_allowed * 100) \div max(pace, 80)
        opp_pace == mean(column(opp_games, "total")) \div 2
    IN  IF team_games = <<>>
        THEN [c \in {c \in FeatureNames : startswith(c, prefix)}
                    \cup {"opp_" \o prefix \o "_def_eff", "opp_" \o prefix \o "_off_eff"}
                 |-> 0]
        ELSE (prefix \o "_off_rating" :> off_rating)
          @@ (prefix \o "_def_rating" :> def_rating)
          @@ (prefix \o "_net_rating" :> off_rating - def_rating)
          @@ (prefix \o "_pace" :> pace)
          @@ (prefix \o "_avg_score_last5" :> mean(column(last5, "scored")))
          @@ (prefix \o "_avg_allowed_last5" :> mean(column(last5, "allowed")))
          @@ (prefix \o "_margin_last5" :> mean(column(last5, "margin")))
          @@ (prefix \o "_avg_score_last10" :> mean(column(last10, "scored")))
          @@ (prefix \o "_avg_allowed_last10" :> mean(column(last10, "allowed")))
          @@ (prefix \o "_margin_last10" :> mean(column(last10, "margin")))
          @@ (prefix \o "_rest_days" :> rest)
          @@ (prefix \o "_b2b" :> IF rest <= 1 THEN 1 ELSE 0)
          @@ (prefix \o "_scoring_variance" :>
                 IF Len(scores) >= 2 THEN variance_of(scores) ELSE 0)
          @@ (prefix \o "_consistency" :> avg_score \div max(std_score, 1))
          @@ (prefix \o "_off_volatility" :> IF Len(scores) >= 2 THEN std_of(scores) ELSE 0)
          @@ (prefix \o "_def_volatility" :> IF Len(allowed) >= 2 THEN std_of(allowed) ELSE 0)
          @@ (prefix \o "_margin_trend" :>
                 mean(column(last5, "margin")) - mean(column(last10, "margin")))
          @@ (IF opp_games # <<>>
              THEN ("opp_" \o prefix \o "_def_eff" :>
                       (mean(column(opp_games, "allowed")) * 100) \div max(opp_pace, 80))
                @@ ("opp_" \o prefix \o "_off_eff" :>
                       (mean(column(opp_games, "scored")) * 100) \div max(opp_pace, 80))
              ELSE ("opp_" \o prefix \o "_def_eff" :> 0)
                @@ ("opp_" \o prefix \o "_off_eff" :> 0))

\* row.get(key, default)
get(row, key, default) == IF key \in DOMAIN row THEN row[key] ELSE default

\* the row both builders make of the features of the two sides
feature_row(games, home_id, away_id, before_date) ==
    LET home_feat == compute_team_features(games, home_id, away_id, before_date, "home")
        away_feat == compute_team_features(games, away_id, home_id, before_date, "away")
        row == ("home_indicator" :> 1) @@ away_feat @@ home_feat
    IN  ("pace_interaction" :>
            (get(row, "home_pace", DEFAULT_PACE) * get(row, "away_pace", DEFAULT_PACE))
                \div 100) @@ row

\* frame[FEATURE_COLUMNS] of one row: the columns in the order of
\* FEATURE_COLUMNS, a column the row lacks filled with 0.0
feature_vector(row) ==
    [i \in DOMAIN FEATURE_COLUMNS |->
        <<FEATURE_COLUMNS[i], get(row, FEATURE_COLUMNS[i], 0)>>]

\* result[FEATURE_COLUMNS].fillna(0.0)
fillna(vector) ==
    [i \in DOMAIN vector |-> <<vector[i][1], IF vector[i][2] = NaN THEN 0 ELSE vector[i][2]>>]

\* _build_prediction_features(home_id, away_id)
build_prediction_features(games, home_id, away_id) ==
    feature_vector(feature_row(games, home_id, away_id, FUTURE_DATE))

\* build_training_frame() and "X = df[FEATURE_COLUMNS]" of train_models: the
\* feature vector of every Final game that has a score, by game_id
build_training_frame(games) ==
    [g \in {r.game_id : r \in {r \in games : /\ r.status = "Final"
                                             /\ ~(r.home_score = 0 /\ r.visitor_score = 0)}}
        |-> LET r == CHOOSE r \in games : r.game_id = g
            IN  fillna(feature_vector(
                    feature_row(games, r.home_team_id, r.visitor_team_id, r.date)))]

\* a row of table games
GameRow(g, date, status, home_id, away_id, home_score, visitor_score) ==
    [game_id |-> g, date |-> date, status |-> status,
     home_team_id |-> home_id, visitor_team_id |-> away_id,
     home_score |-> home_score, visitor_score |-> visitor_score]

\* the teams: team 3 plays its first game last
Teams == {1, 2, 3}

\* the games table holds any of these games
GamePool ==
    {GameRow(1, 20250110, "Final", 1, 2, 110, 100),
     GameRow(2, 20250111, "Final", 2, 1, 95, 105),
     GameRow(3, 20250113, "Final", 1, 2, 0, 0),
     GameRow(4, 20250114, "Final", 3, 1, 120, 90),
     GameRow(5, 20250115, "7:30 pm ET", 2, 3, 0, 0)}

BuildTrainingFrame ==
    \E games \in SUBSET GamePool :
        /\ last' = [op |-> "build_training_frame", games |-> games,
                    frame |-> build_training_frame(games)]
        /\ UNCHANGED <<local, remote, available, finalGames, results, snapshot,
                       predictions, reviewVars, simVars>>

BuildPredictionFeatures ==
    \E games \in SUBSET GamePool, home_id \in Teams, away_id \in Teams :
        /\ home_id # away_id
        /\ last' = [op |-> "build_prediction_features", games |-> games,
                    home_id |-> home_id, away_id |-> away_id,
                    features |-> build_prediction_features(games, home_id, away_id)]
        /\ UNCHANGED <<local, remote, available, finalGames, results, snapshot,
                       predictions, reviewVars, simVars>>

\* the first day of the season
OPENING_DAY == 20250100

\* the games table after n days of a season: team 1 plays every day, at home
\* every other day, against team 2 or, every fifth day, team 3; the game of
\* the fourth day was not played
Season(n) ==
    {GameRow(i, OPENING_DAY + i, IF i = 4 THEN "Postponed" ELSE "Final",
             IF i % 2 = 1 THEN 1 ELSE IF i % 5 = 0 THEN 3 ELSE 2,
             IF i % 2 = 0 THEN 1 ELSE IF i % 5 = 0 THEN 3 ELSE 2,
             100 + i, 120 - i) : i \in 1 .. n}

\* the lengths of the seasons a history is fetched from
SeasonLengths == 0 .. 3 \cup MaxSeason - 3 .. MaxSeason

GetTeamGames ==
    \E n \in SeasonLengths, team_id \in Teams,
       before_date \in OPENING_DAY + 1 .. OPENING_DAY + MaxSeason + 1 :
        /\ last' = [op |-> "_get_team_games", games |-> Season(n),
                    team_id |-> team_id, before_date |-> before_date,
                    result |-> get_team_games(Season(n), team_id, before_date)]
        /\ UNCHANGED <<local, remote, available, finalGames, results, snapshot,
                       predictions, reviewVars, simVars>>

----------------------------------------------------------------------------
(* rating_engine.py.  An edge is in tenths of a percent, a probability in *)
(* percent, decimal odds in hundredths, a fraction in quarters and money  *)
(* in tenths of a cent.                                                   *)

\* the edges 15.0, 12.0, 9.0, 7.0 and 5.0, in tenths of a percent
STARS_5 == 150
STARS_4 == 120
STARS_3 == 90
STARS_2 == 70
STARS_1 == 50

\* abs(x)
abs(x) == IF x < 0 THEN -x ELSE x

\* variant: the staircase applied to the signed edge
signed_edge_to_stars(edge_pct) ==
    IF edge_pct >= STARS_5 THEN 5
    ELSE IF edge_pct >= STARS_4 THEN 4
    ELSE IF edge_pct >= STARS_3 THEN 3
    ELSE IF edge_pct >= STARS_2 THEN 2
    ELSE IF edge_pct >= STARS_1 THEN 1
    ELSE 0

\* _edge_to_stars(edge_pct)
edge_to_stars(edge_pct) ==
    LET edge == abs(edge_pct)
    IN  IF edge >= STARS_5 THEN 5
        ELSE IF edge >= STARS_4 THEN 4
        ELSE IF edge >= STARS_3 THEN 3
        ELSE IF edge >= STARS_2 THEN 2
        ELSE IF edge >= STARS_1 THEN 1
        ELSE 0

\* probability 1.0 in percent, odds 1.0 in hundredths, fraction 1.0 in quarters
PERCENT == 100
ODDS_UNIT == 100
FRACTION_UNIT == 4

\* one cent, in tenths of a cent
CENT == 10

\* variant: the stake cut down to whole cents
floor2(numerator, denominator) == CENT * (numerator \div (denominator * CENT))

\* round(numerator / denominator, 2) of an amount in tenths of a cent, for a
\* positive denominator: the nearest whole cent, a tie going to the even cent
round2(numerator, denominator) ==
    LET d == denominator * CENT
        q == numerator \div d
        r == numerator - q * d
    IN  CENT * (IF 2 * r < d THEN q
                ELSE IF 2 * r > d THEN q + 1
                ELSE IF q % 2 = 0 THEN q ELSE q + 1)

\* the numerator and the denominator of bankroll * kelly
kelly_numerator(probability, odds, bankroll, fraction) ==
    bankroll * (probability * odds - PERCENT * ODDS_UNIT) * fraction

kelly_denominator(odds) == (odds - ODDS_UNIT) * PERCENT * FRACTION_UNIT

\* compute_kelly_stake(probability, odds, bankroll, fraction)
compute_kelly_stake(probability, odds, bankroll, fraction) ==
    LET numerator == probability * odds - PERCENT * ODDS_UNIT
        denominator == odds - ODDS_UNIT
        stake == round2(kelly_numerator(probability, odds, bankroll, fraction),
                        kelly_denominator(odds))
    IN  IF denominator <= 0 \/ numerator <= 0
        THEN [recommended_stake |-> 0, bankroll_after_bet |-> bankroll]
        ELSE [recommended_stake |-> stake,
              bankroll_after_bet |-> round2(bankroll - stake, 1)]

\* the edges a rating is asked for: -20.0 % to 20.0 %
Edges == -200 .. 200

\* the bets a stake is asked for
Probabilities == {0, 45, 52, 53, 55, 60, 100}
Odds == {90, 100, 191, 200, 250}
Bankrolls == {0, 2505, 9999, 10000}
Fractions == {0, 1, 2, 4}

EdgeToStars ==
    \E edge_pct \in Edges :
        /\ last' = [op |-> "_edge_to_stars", edge_pct |-> edge_pct,
                    stars |-> edge_to_stars(edge_pct)]
        /\ UNCHANGED <<local, remote, available, finalGames, results, snapshot,
                       predictions, reviewVars, simVars>>

ComputeKellyStake ==
    \E probability \in Probabilities, odds \in Odds,
       bankroll \in Bankrolls, fraction \in Fractions :
        /\ last' = [op |-> "compute_kelly_stake", probability |-> probability,
                    odds |-> odds, bankroll |-> bankroll, fraction |-> fraction,
                    result |-> compute_kelly_stake(probability, odds, bankroll, fraction)]
        /\ UNCHANGED <<local, remote, available, finalGames, results, snapshot,
                       predictions, reviewVars, simVars>>

----------------------------------------------------------------------------
(* prediction_engine.py: the hybrid of the simulation and the classifiers. *)
(* A classifier probability is in percent; a hybrid probability is in      *)
(* thousandths divided by the number of simulated games.                   *)

\* MC_WEIGHT = 0.6 and CLASSIFIER_WEIGHT = 0.4, in tenths
MC_WEIGHT == 6
CLASSIFIER_WEIGHT == 4

\* a classifier of the bundle: None, one whose predict_proba raises, or one
\* that answers the probability of the positive class
Classifiers ==
    {[kind |-> "none", probability |-> 0], [kind |-> "raises", probability |-> 0]}
        \cup {[kind |-> "fitted", probability |-> p] : p \in {20, 50, 65, 80}}

\* "if model is not None: try: prob = float(model.predict_proba(feat)[0][1])
\* except Exception: pass": None or <<the probability>>
classifier_probability(model) ==
    IF model.kind = "fitted" THEN <<model.probability>> ELSE NoLine

\* variant: a probability that is None counts as 0
hybrid_none_as_zero(mc_count, n_sim, model_prob) ==
    MC_WEIGHT * 100 * mc_count
        + (IF model_prob # NoLine THEN CLASSIFIER_WEIGHT * model_prob[1] * n_sim ELSE 0)

\* "if prob_model is not None: combined = MC_WEIGHT * mc_prob +
\* CLASSIFIER_WEIGHT * prob_model else: combined = mc_prob", for the
\* simulated probability mc_count / n_sim
hybrid(mc_count, n_sim, model_prob) ==
    IF model_prob # NoLine
    THEN MC_WEIGHT * 100 * mc_count + CLASSIFIER_WEIGHT * model_prob[1] * n_sim
    ELSE 1000 * mc_count

\* run_prediction for one game, from the classifiers to the two hybrid
\* probabilities
HybridDecision ==
    \E a \in SimArgs :
        LET sim == run_possession_simulation(a, rng)
        IN  \E spread_cover_model \in Classifiers, total_model \in Classifiers :
                LET spread_cover_prob_model == classifier_probability(spread_cover_model)
                    total_over_prob_model == classifier_probability(total_model)
                IN  /\ rng' = sim.generator
                    /\ last' = [op |-> "run_prediction", args |-> a,
                                spread_cover_model |-> spread_cover_model,
                                total_model |-> total_model, sim |-> sim,
                                combined_spread_prob |->
                                    hybrid(sim.spread_cover_count, sim.simulation_count,
                                           spread_cover_prob_model),
                                combined_total_prob |->
                                    hybrid(sim.over_count, sim.simulation_count,
                                           total_over_prob_model)]
                    /\ UNCHANGED <<local, remote, available, finalGames, results,
                                   snapshot, predictions, reviewVars, sims>>

----------------------------------------------------------------------------
(* The simulator specification: simulations called one after another *)

InitSim ==
    /\ local = TrainedDir(2)
    /\ remote = local
    /\ available = TRUE
    /\ finalGames = 0
    /\ results = {}
    /\ snapshot = <<>>
    /\ predictions = <<>>
    /\ last = NoCall
    /\ NoReviews
    /\ NoSims

NextSim == Simulate

SpecSim == InitSim /\ [][NextSim]_vars

----------------------------------------------------------------------------
(* The feature specification: feature rows built from a games table *)

NextFeatures == BuildTrainingFrame \/ BuildPredictionFeatures

InitFeatures == InitSim

SpecFeatures == InitFeatures /\ [][NextFeatures]_vars

----------------------------------------------------------------------------
(* The history specification: histories fetched and feature rows built *)

InitHistory == InitSim

NextHistory == GetTeamGames \/ BuildTrainingFrame \/ BuildPredictionFeatures

SpecHistory == InitHistory /\ [][NextHistory]_vars

----------------------------------------------------------------------------
(* The hit specification: the hit functions of the review applied to picks *)

InitHits == InitSim

NextHits == CalcSpreadHit \/ CalcTotalHit

SpecHits == InitHits /\ [][NextHits]_vars

----------------------------------------------------------------------------
(* The deduplication specification: lists of prediction rows deduplicated *)

InitDedup == InitSim

NextDedup == DeduplicatePredictions

SpecDedup == InitDedup /\ [][NextDedup]_vars

----------------------------------------------------------------------------
(* The logging specification: records saved to the remote store *)

InitLogging == InitStore

NextLogging == SaveRecord

SpecLogging == InitLogging /\ [][NextLogging]_vars

----------------------------------------------------------------------------
(* The rating specification: star ratings and stakes asked for in any order *)

InitRating == InitSim

NextRating == EdgeToStars \/ ComputeKellyStake

SpecRating == InitRating /\ [][NextRating]_vars

----------------------------------------------------------------------------
(* The hybrid specification: games predicted one after the other *)

InitHybrid == InitSim

NextHybrid == HybridDecision

SpecHybrid == InitHybrid /\ [][NextHybrid]_vars

----------------------------------------------------------------------------
(* prediction_engine.py, odds_tracker.py: the prediction run of one day.   *)
(* A market line is a whole number; a value that may be None is a tuple of *)
(* one number, or NoLine for None.                                         *)

MIN_SIMULATION_COUNT == 10000

\* d.get(key) of a dict
dict_get(d, key) == IF key \in DOMAIN d THEN <<d[key]>> ELSE NoLine

\* "a or b" of Python on values that are None or numbers: None and 0 are falsy
py_or(a, b) == IF a # NoLine /\ a[1] # 0 THEN a ELSE b

\* parse_main_market(odds_payload), applied to the list under "data": the
\* spread and the total of the first market, None for an empty list
parse_main_market(markets) ==
    IF markets = <<>> THEN [spread |-> NoLine, total |-> NoLine]
    ELSE LET first_market == markets[1]
         IN  [spread |-> py_or(dict_get(first_market, "spread_home"),
                               dict_get(first_market, "home_spread")),
              total |-> py_or(dict_get(first_market, "total"),
                              dict_get(first_market, "total_line"))]

\* what the primary provider has for a game: no event with the names of the
\* two teams, an event whose bookmakers quote no spread or no total, or an
\* event with both lines (extract_opening_line and extract_live_line of an
\* event with one bookmaker)
PrimaryAnswers ==
    {[matched |-> FALSE, home_spread |-> NoLine, total_points |-> NoLine],
     [matched |-> TRUE, home_spread |-> NoLine, total_points |-> NoLine],
     [matched |-> TRUE, home_spread |-> <<-4>>, total_points |-> <<218>>]}

\* what client.betting_odds(game_ids=game_id) does: the request raises, or it
\* returns the list of markets of the game: none, one with a spread and a
\* total under either spelling of the keys, or one of a game without a
\* favourite (spread 0)
FallbackAnswers ==
    {[raised |-> TRUE, data |-> <<>>],
     [raised |-> FALSE, data |-> <<>>],
     [raised |-> FALSE, data |-> <<[spread_home |-> -6, total |-> 220]>>],
     [raised |-> FALSE, data |-> <<[home_spread |-> -2, total_line |-> 214]>>],
     [raised |-> FALSE, data |-> <<[spread_home |-> 0, total |-> 218]>>]}

\* sim.get("simulation_count", 0) of the simulation of a game
SimulationCounts == {MIN_SIMULATION_COUNT - 1, MIN_SIMULATION_COUNT}

NoOdds == [odds_source |-> "NONE", live_spread |-> NoLine, live_total |-> NoLine]

\* run_prediction, "PRIMARY: the-odds-api.com" and "FALLBACK: balldontlie
\* betting_odds": the source of the lines of a game and the lines
resolve_odds(primary, fallback) ==
    IF primary.matched /\ primary.home_spread # NoLine /\ primary.total_points # NoLine
    THEN [odds_source |-> "PRIMARY",
          live_spread |-> primary.home_spread, live_total |-> primary.total_points]
    ELSE IF fallback.raised THEN NoOdds
    ELSE LET market == parse_main_market(fallback.data)
         IN  IF market.spread # NoLine /\ market.total # NoLine
             THEN [odds_source |-> "BALLDONTLIE",
                   live_spread |-> market.spread, live_total |-> market.total]
             ELSE NoOdds

\* variant: the simulation count is not verified
undersampled_unverified(sim_count) == FALSE

\* run_prediction, "Step 5: Verify simulation count"
undersampled(sim_count) == sim_count < MIN_SIMULATION_COUNT

\* run_prediction, prediction_row: the row of a game predicted with the lines
\* of odds; details.simulation is the result of the simulation
run_row(g, target_date, out, odds, sim_count) ==
    LET decision == decide(out, odds.live_spread[1], odds.live_total[1])
    IN  [game_id |-> g, game_date |-> target_date,
         spread_pick |-> decision.spread_pick, total_pick |-> decision.total_pick,
         live_spread |-> decision.live_spread, live_total |-> decision.live_total,
         details |-> [simulation |-> [predicted_margin |-> out.predicted_margin,
                                      predicted_total |-> out.predicted_total,
                                      simulation_count |-> sim_count],
                      total_rating |-> decision.details.total_rating],
         simulation_runs |-> sim_count, odds_source |-> odds.odds_source]

\* the state of a run before the first game
RunStart ==
    [snapshot |-> snapshot, predictions |-> predictions,
     saved_count |-> 0, odds_valid_count |-> 0,
     odds_source |-> <<>>, saved |-> {}, exited |-> FALSE]

\* run_prediction, "for idx, g in enumerate(games)": a game without lines is
\* skipped, an undersampled simulation ends the process, every other game
\* is persisted in the local table and in the remote one
RECURSIVE predict_games(_, _, _)
predict_games(todo, day, st) ==
    IF todo = <<>> \/ st.exited THEN st
    ELSE LET g == Head(todo)
             odds == resolve_odds(day.primary[g], day.fallback[g])
             sim_count == day.simulation_count[g]
             seen == [st EXCEPT !.odds_source = Append(@, odds.odds_source)]
         IN  IF odds.odds_source = "NONE"
             THEN predict_games(Tail(todo), day, seen)
             ELSE IF undersampled(sim_count)
             THEN [seen EXCEPT !.odds_valid_count = @ + 1, !.exited = TRUE]
             ELSE LET row == run_row(g, day.target_date, day.out, odds, sim_count)
                  IN  predict_games(Tail(todo), day,
                          [seen EXCEPT
                              !.odds_valid_count = @ + 1,
                              !.saved_count = @ + 1,
                              !.saved = @ \cup {g},
                              !.snapshot = insert_prediction(@, day.target_date, row),
                              !.predictions = save_prediction(@, available, row,
                                                              day.inserted)])

\* run_prediction, after the loop: "No betting odds returned from any
\* provider" is raised when no game had lines, and the process exits when no
\* prediction was saved
run_outcome(games, st) ==
    IF st.exited THEN "exit"
    ELSE IF games > 0 /\ st.odds_valid_count = 0 THEN "raised"
    ELSE IF games > 0 /\ st.saved_count = 0 THEN "exit"
    ELSE "sent"

\* run_prediction(target_date) on a day of n games, the games 1..n
run_prediction(n, day) ==
    LET st == predict_games([g \in 1..n |-> g], day, RunStart)
    IN  /\ snapshot' = st.snapshot
        /\ predictions' = st.predictions
        /\ last' = [op |-> "run_prediction_day", games |-> n,
                    target_date |-> day.target_date,
                    primary |-> day.primary, fallback |-> day.fallback,
                    simulation_count |-> day.simulation_count,
                    odds_source |-> st.odds_source, saved |-> st.saved,
                    outcome |-> run_outcome(n, st)]
        /\ UNCHANGED <<local, remote, available, finalGames, results, reviewVars, simVars>>

\* one run of the process on the stores of the day before
RunPrediction ==
    /\ last = NoCall
    /\ \E n \in 0..MaxGames, d \in SNAPSHOT_DATES, out \in ModelOutputs :
       \E primary \in [1..n -> PrimaryAnswers], fallback \in [1..n -> FallbackAnswers] :
       \E simulation_count \in [1..n -> SimulationCounts], inserted \in BOOLEAN :
          /\ Len(snapshot) + n <= MaxPredictions
          /\ Len(predictions) + n <= MaxPredictions
          /\ run_prediction(n, [target_date |-> d, out |-> out, primary |-> primary,
                                fallback |-> fallback,
                                simulation_count |-> simulation_count,
                                inserted |-> inserted])

----------------------------------------------------------------------------
(* The run specification: one prediction run on empty record tables *)

InitRun == InitStore

NextRun == RunPrediction

SpecRun == InitRun /\ [][NextRun]_vars

----------------------------------------------------------------------------
(* Claims about ensure_models *)

\* the files of a directory that a bundle is made of agree with the bundle
HoldsBundle(dir, bundle) == load_models(dir) = bundle

C2_ForceAlwaysRetrains ==
    (last.op = "ensure_models" /\ last.force)
        => \/ last.outcome = "raised"
           \/ (last.outcome = "returned" /\ last.source = "trained" /\ last.trainings = 1)

C5_ReturnedBundleIsSynced ==
    (last.op = "ensure_models" /\ last.outcome = "returned")
        => HoldsBundle(remote, last.bundle)

\* C6: after a call ensure_models(force=False) that returned, the next call
\* ensure_models(force=False) returns the same version tag and trains nothing.
C6_LifecycleIdempotence ==
    [][(/\ last.op = "ensure_models" /\ ~last.force /\ last.outcome = "returned"
        /\ last'.op = "ensure_models" /\ ~last'.force)
       => (/\ last'.outcome = "returned"
           /\ last'.bundle.version = last.bundle.version
           /\ last'.trainings = 0)]_vars

\* a second call after one that trained: it returns the cached bundle
C6_Witness ==
    /\ last.op = "ensure_models"
    /\ ~last.force
    /\ last.outcome = "returned"
    /\ last.source = "cached"
    /\ last.bundle.version = MaxVersion
    /\ remote = local

\* C7: the version tag of the model directory never decreases, and a call
\* that runs train_models leaves it strictly greater than it was.
C7_VersionMonotonic ==
    [][/\ current_version(local') >= current_version(local)
       /\ (last'.op = "ensure_models" /\ last'.trainings = 1 /\ vars' # vars)
            => current_version(local') > current_version(local)]_vars

----------------------------------------------------------------------------
(* Claims about the retrain trigger *)

FinalizedRows ==
    {i \in DOMAIN snapshot :
        /\ \E r \in results : r.game_id = snapshot[i].game_id
        /\ \A j \in DOMAIN snapshot :
              snapshot[j].game_id = snapshot[i].game_id => j <= i}

\* the most recent of them, at most SAMPLE_LIMIT
RecentFinalizedRows ==
    {i \in FinalizedRows :
        Cardinality({j \in FinalizedRows : j > i}) < SAMPLE_LIMIT}

\* C9: the detector reports degradation when the combined hit-rate over the
\* recent finalized predictions (correct spread picks plus correct total
\* picks over the picks evaluated) is below 45%, and none when it is 45% or
\* higher.
C9_DetectorFollowsHitRate ==
    last.op = "check_performance_degradation"
        => LET ht == count_hits(RecentFinalizedRows)
           IN  ht[2] > 0 => (last.result <=> ht[1] * 100 < 45 * ht[2])

----------------------------------------------------------------------------
(* Claims about the record stores *)

\* a row of predictions_snapshot that is marked final
LocalFinal(row) ==
    "is_final_prediction" \in DOMAIN row /\ row.is_final_prediction = 1

\* a row of the Supabase table predictions that is marked final
RemoteFinal(row) == row.payload.is_final_prediction

LocalFinals(g) ==
    Cardinality({i \in DOMAIN snapshot :
                    snapshot[i].game_id = g /\ LocalFinal(snapshot[i])})

RemoteFinals(g) ==
    Cardinality({i \in DOMAIN predictions :
                    predictions[i].game_id = g /\ RemoteFinal(predictions[i])})

RecordsOf(table, g) ==
    Cardinality({i \in DOMAIN table : table[i].game_id = g})

\* C10: in the local and in the remote store every contest has at most one
\* prediction record marked final, and a contest with two or more prediction
\* records has exactly one marked final.
C10_AtMostOneFinal ==
    \A g \in Games :
        /\ LocalFinals(g) <= 1
        /\ RemoteFinals(g) <= 1
        /\ RecordsOf(snapshot, g) >= 2 => LocalFinals(g) = 1
        /\ RecordsOf(predictions, g) >= 2 => RemoteFinals(g) = 1

\* C11: a second insert_prediction for a contest that already has a
\* prediction of the same snapshot date keeps both records, leaves the older
\* one non-final and the newer one final; the first prediction recorded for a
\* contest is final.
C11_SecondInsertDemotes ==
    [][last'.op = "persist_prediction"
        => LET g == last'.game_id
               d == last'.snapshot_date
               older == {i \in DOMAIN snapshot : snapshot[i].game_id = g}
           IN  /\ (\E i \in older : snapshot[i].snapshot_date = d)
                    => /\ Len(snapshot') = Len(snapshot) + 1
                       /\ \A i \in older :
                             /\ "is_final_prediction" \in DOMAIN snapshot'[i]
                             /\ snapshot'[i].is_final_prediction = 0
                       /\ LocalFinal(snapshot'[Len(snapshot')])
               /\ older = {}
                    => /\ Len(snapshot') = Len(snapshot) + 1
                       /\ LocalFinal(snapshot'[Len(snapshot')])]_vars

----------------------------------------------------------------------------
(* Claims about the review *)

\* C12: after any sequence of run_review executions table review_results
\* holds at most one row per game_id.
C12_OneReviewPerGame ==
    \A g \in Games : Cardinality({r \in review_results : r.game_id = g}) <= 1

\* a run_review execution that reviewed a game again and rewrote its row
C12_Witness ==
    /\ last.op = "run_review"
    /\ last.updated # {}
    /\ \E r \in review_results : r.game_id \in last.updated /\ r.reviewed_at = now - 1

\* C13: a row of review_results is created only for a game whose status is
\* "Final", and once it is there no later run_review execution changes any
\* of its fields.
C13_ReviewRecordImmutable ==
    [][/\ \A r \in review_results : r \in review_results'
       /\ \A r \in review_results' \ review_results :
             api[r.game_id].status = "Final"]_vars

\* the side and the direction of the picks a prediction row made
made_spread_pick(payload) == IF has_shourang(payload.spread_pick) THEN "away" ELSE "home"

made_total_pick(payload) == IF payload.total_pick = OVER_PICK THEN "over" ELSE "under"

\* C14: the row run_review writes for a game records the spread and total
\* picks of the game's latest prediction, and its hit flags are those of
\* these picks against the final score and the live lines stored with that
\* prediction.
C14_ReviewRecordsPicksMade ==
    \A r \in review_results :
        \A p \in load_latest_predictions(predictions, TRUE) :
            p.game_id = r.game_id
                => /\ r.spread_pick = made_spread_pick(p.payload)
                   /\ r.total_pick = made_total_pick(p.payload)
                   /\ r.spread_hit =
                         calc_spread_hit(made_spread_pick(p.payload), r.final_home_score,
                                         r.final_visitor_score, p.payload.live_spread[1])
                   /\ r.ou_hit =
                         calc_total_hit(made_total_pick(p.payload), r.final_home_score,
                                        r.final_visitor_score, p.payload.live_total[1])

\* C20: an upsert that fails is tried once more: no record is upserted more
\* than twice, and a record whose upsert fails once and would succeed when
\* repeated is stored.
C20_UpsertRetriedOnce ==
    last.op = "run_review"
        => \A g \in last.reviewed :
              /\ last.attempts[g] <= 2
              /\ (g \in last.transient /\ available /\ last.columns # {})
                    => /\ last.attempts[g] = 2
                       /\ \E r \in review_results :
                             r.game_id = g /\ r.reviewed_at = now - 1

----------------------------------------------------------------------------
(* Claims about the simulator, the ratings and the blend *)

\* C15: a call of run_possession_simulation returns, for every probability
\* and moment, what every earlier call with the same game_id and the same
\* inputs returned, whatever calls were made before or in between.
C15_SimulationDeterminism ==
    [][(last'.op = "run_possession_simulation" /\ sims[last'.args].calls >= 1)
          => last'.result = sims[last'.args].result]_vars

\* a simulation repeated after a simulation of another game
C15_Witness ==
    /\ last.op = "run_possession_simulation"
    /\ sims[last.args].calls = 2
    /\ \E a \in SimArgs : a.game_id # last.args.game_id /\ sims[a].calls >= 1
    /\ last.result.spread_cover_count > 0
    /\ last.result.over_count < last.result.simulation_count


\* the feature vectors the last operation built, each with the games table,
\* the two teams and the date it was built for
built_vectors ==
    IF last.op = "build_prediction_features"
    THEN {[games |-> last.games, home_id |-> last.home_id, away_id |-> last.away_id,
           before_date |-> FUTURE_DATE, vector |-> last.features]}
    ELSE IF last.op = "build_training_frame"
    THEN {LET r == CHOOSE r \in last.games : r.game_id = g
          IN  [games |-> last.games, home_id |-> r.home_team_id,
               away_id |-> r.visitor_team_id, before_date |-> r.date,
               vector |-> last.frame[g]] : g \in DOMAIN last.frame}
    ELSE {}

\* every name of FEATURE_COLUMNS, in that order, each with a number
complete(vector) ==
    /\ Len(vector) = Len(FEATURE_COLUMNS)
    /\ \A i \in DOMAIN vector :
           vector[i][1] = FEATURE_COLUMNS[i] /\ vector[i][2] \in Int \ {NaN}

\* the sides of a built vector that had no game before its date
zero_history_sides(b) ==
    {side \in {"home", "away"} :
        get_team_games(b.games, IF side = "home" THEN b.home_id ELSE b.away_id,
                       b.before_date) = <<>>}

\* the columns prefixed for the side have 0.0, but for the excepted ones
zero_for_side(vector, side, excepted) ==
    \A i \in DOMAIN vector :
        (startswith(vector[i][1], side) /\ vector[i][1] \notin excepted)
            => vector[i][2] = 0

\* C16: every feature row built for training or for prediction has every
\* name of FEATURE_COLUMNS, in that order, with a finite number, and a side
\* with no history has 0.0 in every column prefixed for it, but for
\* home_indicator, which is 1.0 in every row
C16_FeatureRowComplete ==
    \A b \in built_vectors :
        /\ complete(b.vector)
        /\ \A side \in zero_history_sides(b) :
               zero_for_side(b.vector, side, {"home_indicator"})
        /\ \E i \in DOMAIN b.vector : b.vector[i] = <<"home_indicator", 1>>

\* C16 as stated: a side with no history has 0.0 in every column prefixed for it
C16_ZeroHistoryAllZero ==
    \A b \in built_vectors :
        /\ complete(b.vector)
        /\ \A side \in zero_history_sides(b) : zero_for_side(b.vector, side, {})

C16_Witness ==
    \E b \in built_vectors :
        /\ zero_history_sides(b) = {"home"}
        /\ \E i \in DOMAIN b.vector : b.vector[i][1] = "away_pace" /\ b.vector[i][2] > 0


\* C17: _edge_to_stars gives 5 stars from 15 %, 4 from 12 %, 3 from 9 %, 2 from
\* 7 %, 1 from 5 % of absolute edge and 0 below, each threshold included; so
\* the stars are in 0..5 and, of two calls, the one with the larger absolute
\* edge never has fewer stars
C17_EdgeToStarsStaircase ==
    [][last'.op = "_edge_to_stars" =>
          /\ last'.stars = Cardinality({t \in {50, 70, 90, 120, 150} :
                                           abs(last'.edge_pct) >= t})
          /\ last'.stars \in 0 .. 5
          /\ (last.op = "_edge_to_stars" /\ abs(last.edge_pct) <= abs(last'.edge_pct))
                 => last.stars <= last'.stars]_vars

C17_Witness ==
    /\ last.op = "_edge_to_stars"
    /\ last.edge_pct = -120
    /\ last.stars = 4

\* the bet of the last call has a positive Kelly fraction
kelly_positive == last.probability * last.odds > PERCENT * ODDS_UNIT /\ last.odds > ODDS_UNIT

\* x is a whole number of cents within half a cent of numerator / denominator
rounded_to_cent(x, numerator, denominator) ==
    /\ x % CENT = 0
    /\ 2 * abs(x * denominator - numerator) <= CENT * denominator

weighted(combined, mc_count, n_sim, probability) ==
    10 * combined = 6 * (1000 * mc_count) + 4 * (10 * probability * n_sim)

\* the hybrid probability is mc_count / n_sim
simulation_alone(combined, mc_count) == combined = 1000 * mc_count

\* C19: for the spread and for the total, the final probability is
\* 0.6 * simulation probability + 0.4 * classifier probability when the
\* classifier gave a probability, and the simulation probability itself when
\* the classifier is missing or its prediction raised
C19_HybridBlend ==
    last.op = "run_prediction" =>
        /\ IF last.spread_cover_model.kind = "fitted"
           THEN weighted(last.combined_spread_prob, last.sim.spread_cover_count,
                         last.sim.simulation_count, last.spread_cover_model.probability)
           ELSE simulation_alone(last.combined_spread_prob, last.sim.spread_cover_count)
        /\ IF last.total_model.kind = "fitted"
           THEN weighted(last.combined_total_prob, last.sim.over_count,
                         last.sim.simulation_count, last.total_model.probability)
           ELSE simulation_alone(last.combined_total_prob, last.sim.over_count)

C19_Witness ==
    /\ last.op = "run_prediction"
    /\ last.spread_cover_model.kind = "fitted"
    /\ last.total_model.kind = "raises"
    /\ last.sim.spread_cover_count > 0
    /\ last.sim.over_count > 0
    /\ last.combined_total_prob = 1000 * last.sim.over_count


----------------------------------------------------------------------------
(* Claims about failures of the lifecycle *)

\* C23: a call of ensure_models that gets to build the training frame and
\* finds it empty (the games table holds no Final game) raises without
\* training, and leaves the model directory, its version tag and the bucket
\* as they were before the call
C23_EmptyFrameLeavesArtifacts ==
    [][(/\ last'.op = "ensure_models"
        /\ last'.downloads = 1
        /\ last'.source \notin {"cached", "supabase"}
        /\ finalGames' = 0)
       => (/\ last'.outcome = "raised"
           /\ last'.trainings = 0
           /\ local' = local
           /\ remote' = remote)]_vars


\* C25: download_models_from_storage returns True only if home_model.pkl and
\* away_model.pkl were both downloaded from the bucket during the call
C25_TrueOnlyIfDownloaded ==
    (last.op = "download_models_from_storage" /\ last.result)
        => /\ available
           /\ \A f \in REQUIRED_FILES : remote[f] # Absent /\ last.downloads[f] = "ok"


\* C29: whenever model_version.json names a version, the model files of the
\* directory are the ones written with that version, and a training run that
\* raises leaves the directory as it was
C29_VersionTagMatchesArtifacts ==
    [][/\ current_version(local') # Unknown
            => \A f \in MODEL_FILES : local'[f] = current_version(local')
       /\ (last'.op = "train_models" /\ last'.raised) => local' = local]_vars


----------------------------------------------------------------------------
(* Claims about the histories *)

\* the Final games of a team dated strictly before a date
prior_games(games, team_id, before_date) ==
    {r \in games : /\ r.status = "Final"
                   /\ r.date < before_date
                   /\ (r.home_team_id = team_id \/ r.visitor_team_id = team_id)}

\* the games table without the games of the date and later and without the
\* games that are not Final
before(games, before_date) ==
    {r \in games : r.status = "Final" /\ r.date < before_date}

\* C26: the history fetched for a team and an as-of date D holds only Final
\* games of that team dated strictly before D, newest first, the 20 most
\* recent of them when there are more; and a feature row built for date D is
\* the row the table gives without the games dated D or later
C26_NoLookAhead ==
    /\ last.op = "_get_team_games" =>
           LET prior == prior_games(last.games, last.team_id, last.before_date)
               fetched == last.result
           IN  /\ Len(fetched) = IF Cardinality(prior) < 20 THEN Cardinality(prior) ELSE 20
               /\ \A i \in DOMAIN fetched :
                      \E r \in prior :
                          /\ r.date = fetched[i].date
                          /\ r.home_score + r.visitor_score = fetched[i].total
               /\ \A i, j \in DOMAIN fetched : i < j => fetched[i].date > fetched[j].date
               /\ \A r \in prior :
                      (\A i \in DOMAIN fetched : fetched[i].date # r.date)
                          => \A i \in DOMAIN fetched : r.date < fetched[i].date
    /\ \A b \in built_vectors :
           fillna(b.vector) =
               fillna(feature_vector(feature_row(before(b.games, b.before_date),
                                                 b.home_id, b.away_id, b.before_date)))

C26_Witness ==
    /\ last.op = "_get_team_games"
    /\ Len(last.result) = 20
    /\ Cardinality(prior_games(last.games, last.team_id, last.before_date)) > 20
    /\ \E r \in last.games :
           /\ r.date >= last.before_date
           /\ r.status = "Final"
           /\ r.home_team_id = last.team_id


----------------------------------------------------------------------------
(* Claims about the hit functions and the deduplication *)

\* C27: calc_spread_hit is true for "home" iff (home - visitor) + line > 0 and
\* for "away" iff it is < 0; calc_total_hit is true for "over" iff
\* home + visitor > line and for "under" iff it is < line; a push or any
\* other pick is never a hit
C27_HitStrictlyOnPickedSide ==
    /\ last.op = "calc_spread_hit" =>
           LET adjusted == (last.final_home - last.final_visitor) + last.line
           IN  /\ last.pick = "home" => (last.result <=> adjusted > 0)
               /\ last.pick = "away" => (last.result <=> adjusted < 0)
               /\ (adjusted = 0 \/ last.pick \notin {"home", "away"}) => ~last.result
    /\ last.op = "calc_total_hit" =>
           LET total == last.final_home + last.final_visitor
           IN  /\ last.pick = "over" => (last.result <=> total > last.line)
               /\ last.pick = "under" => (last.result <=> total < last.line)
               /\ (total = last.line \/ last.pick \notin {"over", "under"}) => ~last.result

\* a push at the spread line with the home side picked
C27_Witness ==
    /\ last.op = "calc_spread_hit"
    /\ last.pick = "home"
    /\ last.final_home - last.final_visitor = 4
    /\ last.line = -4
    /\ ~last.result


\* C28: _deduplicate_predictions returns exactly one row for every game_id of
\* its input: the row of the game with the greatest created_at (no created_at
\* counting as the least), and of several such rows the first of the input
C28_LatestPerGame ==
    last.op = "_deduplicate_predictions" =>
        LET input == last.predictions
            output == last.result
        IN  /\ {output[i].game_id : i \in DOMAIN output}
                   = {input[i].game_id : i \in DOMAIN input}
            /\ \A i, j \in DOMAIN output : i # j => output[i].game_id # output[j].game_id
            /\ \A k \in DOMAIN output :
                   \E i \in DOMAIN input :
                       /\ input[i] = output[k]
                       /\ \A j \in DOMAIN input :
                              input[j].game_id = input[i].game_id =>
                                  \/ created_at(input[j]) < created_at(input[i])
                                  \/ (created_at(input[j]) = created_at(input[i]) /\ i <= j)

\* the newest row of a game comes last among three and a row as new comes
\* after it
C28_Witness ==
    /\ last.op = "_deduplicate_predictions"
    /\ Len(last.predictions) = 5
    /\ last.predictions[1].payload = "no_ts"
    /\ last.predictions[3].payload = "new"
    /\ last.predictions[5].payload = "tie"
    /\ Len(last.result) = 2
    /\ \E k \in DOMAIN last.result : last.result[k].payload = "new"


----------------------------------------------------------------------------
(* Claims about the remote store and the prediction run *)

\* C24: save_prediction, save_simulation_log, save_training_log and
\* save_review_result never raise to their caller
C24_SaveNeverRaises ==
    last.op \in SAVE_FUNCTIONS => ~last.raised

\* the games of the last run that were reached before the run ended
reached == DOMAIN last.odds_source

\* the provider has no spread or no total for the game: no event or no quote
\* of the primary provider, a failed request or no market of the fallback
without_lines(g) == last.odds_source[g] = "NONE"

\* a record of game g is persisted for the day of the last run
persisted_locally(g) ==
    \E i \in DOMAIN snapshot :
        snapshot[i].game_id = g /\ snapshot[i].snapshot_date = last.target_date

persisted_remotely(g) ==
    \E i \in DOMAIN predictions :
        predictions[i].game_id = g /\ predictions[i].payload.game_date = last.target_date

\* C21: a game for which no market lines can be obtained does not fail the
\* run and is still predicted, with default lines, and its prediction record
\* is persisted
C21_MissingOddsNotFatal ==
    last.op = "run_prediction_day" =>
        \A g \in reached :
            without_lines(g) =>
                /\ last.outcome # "raised"
                /\ (last.outcome = "sent" => persisted_locally(g))

\* the simulation of game g returned fewer samples than required
undersample(g) ==
    /\ last.odds_source[g] # "NONE"
    /\ last.simulation_count[g] < MIN_SIMULATION_COUNT

\* C22: a simulation that returns fewer than 10000 samples ends the run at
\* that game: the process exits, no later game is reached, no record of the
\* game is persisted locally or remotely, and every persisted record is of a
\* simulation of at least 10000 samples
C22_UndersampleIsFatal ==
    last.op = "run_prediction_day" =>
        /\ \A g \in reached :
               undersample(g) =>
                   /\ last.outcome = "exit"
                   /\ g = Len(last.odds_source)
                   /\ g \notin last.saved
                   /\ ~persisted_locally(g)
                   /\ ~persisted_remotely(g)
        /\ \A i \in DOMAIN snapshot :
               last.simulation_count[snapshot[i].game_id] >= MIN_SIMULATION_COUNT
        /\ \A i \in DOMAIN predictions :
               predictions[i].payload.details.simulation.simulation_count
                   >= MIN_SIMULATION_COUNT

\* the first game is persisted in both tables and the simulation of the
\* second is one sample short: the run exits
C22_Witness ==
    /\ last.op = "run_prediction_day"
    /\ last.games = 2
    /\ Len(last.odds_source) = 2
    /\ undersample(2)
    /\ last.outcome = "exit"
    /\ last.saved = {1}
    /\ Len(snapshot) = 1
    /\ Len(predictions) = 1

\* the fallback provider has a spread and a total for the game
fallback_has_lines(g) ==
    /\ ~last.fallback[g].raised
    /\ \E i \in DOMAIN last.fallback[g].data :
           /\ {"spread_home", "home_spread"} \cap DOMAIN last.fallback[g].data[i] # {}
           /\ {"total", "total_line"} \cap DOMAIN last.fallback[g].data[i] # {}

primary_has_lines(g) ==
    /\ last.primary[g].matched
    /\ last.primary[g].home_spread # NoLine
    /\ last.primary[g].total_points # NoLine

\* C30: a game without a matching event of the primary provider for which
\* the fallback provider has a spread and a total is predicted with the
\* source BALLDONTLIE, and a game is skipped only when neither provider has
\* lines for it
C30_FallbackLinesUsed ==
    last.op = "run_prediction_day" =>
        \A g \in reached :
            /\ (~last.primary[g].matched /\ fallback_has_lines(g)) =>
                   /\ last.odds_source[g] = "BALLDONTLIE"
                   /\ (~undersample(g) => g \in last.saved)
            /\ last.odds_source[g] = "NONE" =>
                   (~primary_has_lines(g) /\ ~fallback_has_lines(g))

====
